---- MODULE Spec2Model ----
(***************************************************************************)
(* Model of testbench/model/moving_integrator_model.py: the streaming      *)
(* fixed-point golden model fpga_moving_integrator.                        *)
(*                                                                         *)
(* One call of fpga_moving_integrator is a small state machine: the        *)
(* arguments are bound, the shift register / accumulator / result list are *)
(* constructed (lines 34-36), the for-loop body runs once per sample       *)
(* (lines 37-44) and the result is returned (line 45).  Python exceptions  *)
(* (np.zeros on a negative length, deque.pop on an empty deque) end the    *)
(* call in pc = "raised" with the exception's name in err.                 *)
(*                                                                         *)
(* Numbers.  sreg holds np.float64 zeros, so acc is a float64 from the     *)
(* first sample on, and acc/integration*2**extra_bits is float arithmetic. *)
(* Every quantity met here is of the form a / (integration * 2^k) with     *)
(* |a| * 2^|extra_bits| far below 2^53; for such operands the float64      *)
(* quotient lies on the same side of every integer and of every half-      *)
(* integer as the exact rational, and is exact when the rational is an     *)
(* integer or a half-integer.  floor / round / int therefore return what   *)
(* they return on the exact rational, which is what is modelled: a         *)
(* rational is a record [num, den] with den > 0.  The emitted value        *)
(* int(..)/2**extra_bits is a dyadic rational, exact in float64; it is     *)
(* kept in lowest terms so that equal floats are equal records.            *)
(* round() is Python 3's (np.float64.__round__): ties go to even.          *)
(***************************************************************************)
EXTENDS Integers, Sequences, FiniteSets, TLC

(* samples, integration, math_round, extra_bits: the arguments (line 24).   *)
(* sreg, result, acc: the locals of lines 34-36.  idx: how many samples    *)
(* the for-loop of line 37 has taken.  popped: the value the latest        *)
(* sreg.pop() of line 38 returned.  pc: "call" before line 34, "loop" in   *)
(* lines 37-44, "returned" after line 45, "raised" after an exception.     *)
(* err: the exception raised, or "none".                                   *)
VARIABLES samples, integration, math_round, extra_bits,
          pc, idx, sreg, acc, result, popped, err

(* moving_integrator (lines 10-21): its argument trim_output and its local *)
(* moving_mean; samples, integration, pc and err are shared with the above. *)
VARIABLES trim_output, moving_mean

(* generate_test_vectors (run.py lines 44-59): its arguments bit_width,    *)
(* out_width, signed and extra_bits (gen_extra_bits), the rescaled list    *)
(* golden (the second binding of result, line 57) and the lines written to *)
(* the file, output.                                                       *)
VARIABLES bit_width, out_width, signed, gen_extra_bits, golden, output

fvars == <<trim_output, moving_mean>>

gvars == <<bit_width, out_width, signed, gen_extra_bits, golden, output>>

vars == <<samples, integration, math_round, extra_bits,
          pc, idx, sreg, acc, result, popped, err, fvars, gvars>>

args == <<samples, integration, math_round, extra_bits>>

(* ---------------------------- bounds ----------------------------------- *)

MaxLen == 3

MaxSample == 2

MaxIntegration == 3

MaxExtraBits == 1

SampleVals == (-MaxSample)..MaxSample

IntegrationVals == (-1)..MaxIntegration

ExtraBitsVals == (-MaxExtraBits)..MaxExtraBits

SeqsUpTo(S, n) == UNION { [1..k -> S] : k \in 0..n }

(* ----------------------- arithmetic helpers ---------------------------- *)

RECURSIVE Pow2(_)
Pow2(n) == IF n <= 0 THEN 1 ELSE 2 * Pow2(n - 1)

RECURSIVE Reduce(_, _)
(* a dyadic rational n/d (d a power of two) in lowest terms *)
Reduce(n, d) ==
    IF d > 1 /\ n % 2 = 0 THEN Reduce(n \div 2, d \div 2)
    ELSE [num |-> n, den |-> d]

(* acc/integration*2**extra_bits, as an exact rational (integration >= 1) *)
Scaled(a, n, eb) ==
    IF eb >= 0 THEN [num |-> a * Pow2(eb), den |-> n]
    ELSE [num |-> a, den |-> n * Pow2(-eb)]

FloorTowardZero(x) ==
    IF x.num >= 0 THEN x.num \div x.den ELSE -((-x.num) \div x.den)

(* int(np.floor(x)): the greatest integer <= x *)
Floor(x) == x.num \div x.den

RoundHalfUp(x) == (2 * x.num + x.den) \div (2 * x.den)

(* int(round(x)): nearest integer, ties to the even one *)
Round(x) ==
    LET f == x.num \div x.den
        r == x.num - f * x.den
    IN  IF 2 * r < x.den THEN f
        ELSE IF 2 * r > x.den THEN f + 1
        ELSE IF f % 2 = 0 THEN f ELSE f + 1

QuantizeSwapped(a, n, mr, eb) ==
    IF mr THEN Floor(Scaled(a, n, eb)) ELSE Round(Scaled(a, n, eb))

QuantizeScaleAfter(a, n, mr, eb) ==
    IF mr THEN Round(Scaled(a, n, eb))
    ELSE Floor(Scaled(Floor(Scaled(a, n, 0)), 1, eb))

(* lines 40-43, the integer handed to int() *)
Quantize(a, n, mr, eb) ==
    IF mr THEN Round(Scaled(a, n, eb)) ELSE Floor(Scaled(a, n, eb))

UnscaleMissing(q, eb) == [num |-> q, den |-> 1]

(* q / 2**extra_bits *)
Unscale(q, eb) ==
    IF eb >= 0 THEN Reduce(q, Pow2(eb)) ELSE [num |-> q * Pow2(-eb), den |-> 1]

(* ------------------------ the shift register --------------------------- *)

Ones(n) == [i \in 1..n |-> 1]

(* deque(np.zeros(integration)), integration >= 0 *)
Zeros(n) == [i \in 1..n |-> 0]

PopLeftValue(s) == s[1]

(* the value sreg.pop() returns: the right end *)
PopValue(s) == s[Len(s)]

PopKeep(s) == s

(* the deque after sreg.pop() *)
PopRest(s) == SubSeq(s, 1, Len(s) - 1)

AppendRight(s, sample) == Append(s, sample)

(* the deque after sreg.appendleft(sample) *)
AppendLeft(s, sample) == <<sample>> \o s

AccUpdateNoEvict(a, sample, old) == a + sample

(* acc += sample - sreg.pop() *)
AccUpdate(a, sample, old) == a + sample - old

ResultPrepend(res, value) == <<value>> \o res

(* result.append(value) *)
ResultAppend(res, value) == Append(res, value)

(* one iteration of the for-loop, lines 38-44, on a non-empty sreg *)
LoopBody(st, sample, n, mr, eb) ==
    LET old == PopValue(st.sreg)
        a   == AccUpdate(st.acc, sample, old)
        q   == Quantize(a, n, mr, eb)
    IN  [sreg   |-> AppendLeft(PopRest(st.sreg), sample),
         acc    |-> a,
         result |-> ResultAppend(st.result, Unscale(q, eb)),
         popped |-> old]

(* lines 34-36 *)
Constructed(n) == [sreg |-> Zeros(n), acc |-> 0, result |-> <<>>, popped |-> 0]

RECURSIVE RunLoop(_, _, _, _, _)
RunLoop(st, s, n, mr, eb) ==
    IF s = <<>> THEN st
    ELSE RunLoop(LoopBody(st, Head(s), n, mr, eb), Tail(s), n, mr, eb)

(* the list a whole call returns, integration >= 1 *)
fpga_moving_integrator(s, n, mr, eb) ==
    RunLoop(Constructed(n), s, n, mr, eb).result

(* ----------------------------- the call -------------------------------- *)

TypeOK ==
    /\ samples \in Seq(Int)
    /\ integration \in Int
    /\ math_round \in BOOLEAN
    /\ extra_bits \in Int
    /\ pc \in {"call", "loop", "returned", "raised",
              "fcall", "trim", "freturn", "freturned",
              "gen", "model", "rescale", "write", "closed"}
    /\ idx \in 0..Len(samples)
    /\ err \in {"none", "ValueError", "IndexError"}

Idle ==
    /\ pc = "call"
    /\ idx = 0
    /\ sreg = <<>>
    /\ acc = 0
    /\ result = <<>>
    /\ popped = 0
    /\ err = "none"
    /\ trim_output = TRUE
    /\ moving_mean = <<>>
    /\ bit_width = 0
    /\ out_width = 0
    /\ signed = FALSE
    /\ gen_extra_bits = 0
    /\ golden = <<>>
    /\ output = <<>>

Init ==
    /\ samples \in SeqsUpTo(SampleVals, MaxLen)
    /\ integration \in IntegrationVals
    /\ math_round \in BOOLEAN
    /\ extra_bits \in ExtraBitsVals
    /\ Idle

(* line 34 with integration < 0: np.zeros raises ValueError *)
ConstructRaise ==
    /\ pc = "call"
    /\ integration < 0
    /\ pc' = "raised"
    /\ err' = "ValueError"
    /\ UNCHANGED <<args, idx, sreg, acc, result, popped, fvars, gvars>>

(* lines 34-36 *)
Construct ==
    /\ pc = "call"
    /\ integration >= 0
    /\ sreg' = Constructed(integration).sreg
    /\ acc' = Constructed(integration).acc
    /\ result' = Constructed(integration).result
    /\ pc' = "loop"
    /\ UNCHANGED <<args, idx, popped, err, fvars, gvars>>

(* line 38 on an empty deque (integration = 0): pop raises IndexError *)
LoopRaise ==
    /\ pc = "loop"
    /\ idx < Len(samples)
    /\ sreg = <<>>
    /\ pc' = "raised"
    /\ err' = "IndexError"
    /\ UNCHANGED <<args, idx, sreg, acc, result, popped, fvars, gvars>>

(* lines 37-44: the next sample is taken and one value is appended *)
LoopStep ==
    /\ pc = "loop"
    /\ idx < Len(samples)
    /\ sreg # <<>>
    /\ LET st == LoopBody([sreg |-> sreg, acc |-> acc, result |-> result,
                           popped |-> popped],
                          samples[idx + 1], integration, math_round, extra_bits)
       IN  /\ sreg' = st.sreg
           /\ acc' = st.acc
           /\ result' = st.result
           /\ popped' = st.popped
    /\ idx' = idx + 1
    /\ UNCHANGED <<args, pc, err, fvars, gvars>>

(* line 45: the loop is exhausted *)
Return ==
    /\ pc = "loop"
    /\ idx = Len(samples)
    /\ pc' = "returned"
    /\ UNCHANGED <<args, idx, sreg, acc, result, popped, err, fvars, gvars>>

Next ==
    \/ ConstructRaise
    \/ Construct
    \/ LoopRaise
    \/ LoopStep
    \/ Return

Spec == Init /\ [][Next]_vars

(* ----------------- moving_integrator, lines 10-21 ---------------------- *)
(* Floats are modelled as exact rationals in lowest terms: the rounding    *)
(* of 1/integration and of the sums is left out, so element values are     *)
(* those of the exact convolution.                                         *)

RECURSIVE Gcd(_, _)
Gcd(a, b) == IF b = 0 THEN a ELSE Gcd(b, a % b)

Abs(a) == IF a < 0 THEN -a ELSE a

(* the rational n/d, d > 0, in lowest terms *)
Rat(n, d) ==
    LET g == Gcd(Abs(n), d)
    IN  [num |-> n \div g, den |-> d \div g]

RatAdd(x, y) == Rat(x.num * y.den + y.num * x.den, x.den * y.den)

RatMul(x, y) == Rat(x.num * y.num, x.den * y.den)

RECURSIVE RatSum(_)
RatSum(s) ==
    IF s = <<>> THEN Rat(0, 1) ELSE RatAdd(Head(s), RatSum(Tail(s)))

(* np.ones(integration)/integration, integration >= 0: element-wise
   division, the empty array for integration = 0 *)
Kernel(n) == [i \in 1..n |-> Rat(1, n)]

ConvolveValid(a, v) ==
    LET lo == IF Len(a) < Len(v) THEN Len(a) ELSE Len(v)
        hi == IF Len(a) < Len(v) THEN Len(v) ELSE Len(a)
    IN  [k \in 1..(hi - lo + 1) |->
            RatSum([j \in 1..lo |->
                IF Len(a) < Len(v)
                THEN RatMul(Rat(a[j], 1), v[k + lo - j])
                ELSE RatMul(Rat(a[k + lo - j], 1), v[j])])]

(* np.convolve(a, v), mode 'full', on non-empty a (integers) and v:
   out[k] = sum of a[j] * v[k - j] over the j where both exist *)
Convolve(a, v) ==
    [k \in 1..(Len(a) + Len(v) - 1) |->
        RatSum([j \in 1..Len(a) |->
            IF k + 1 - j \in 1..Len(v)
            THEN RatMul(Rat(a[j], 1), v[k + 1 - j])
            ELSE Rat(0, 1)])]

TrimTail(m, n) == SubSeq(m, Len(m) - n + 1, Len(m))

(* moving_mean[0:len(samples)] *)
TrimHead(m, n) == SubSeq(m, 1, IF n < Len(m) THEN n ELSE Len(m))

Line18ErrorScalar(s, n) ==
    IF n < 0 THEN "ValueError"
    ELSE IF n = 0 THEN "ZeroDivisionError"
    ELSE IF Len(s) = 0 THEN "ValueError"
    ELSE "none"

(* the exception line 18 raises: np.ones refuses a negative length,
   np.convolve refuses an empty operand ('a cannot be empty', 'v cannot be
   empty'); the division of the empty array by 0 raises nothing *)
Line18Error(s, n) ==
    IF n < 0 THEN "ValueError"
    ELSE IF Len(s) = 0 \/ n = 0 THEN "ValueError"
    ELSE "none"

(* the array a whole call returns, when line 18 raises nothing *)
moving_integrator(s, n, trim) ==
    IF trim THEN TrimHead(Convolve(s, Kernel(n)), Len(s))
    ELSE Convolve(s, Kernel(n))

InitFloat ==
    /\ samples \in SeqsUpTo(SampleVals, MaxLen)
    /\ integration \in IntegrationVals
    /\ trim_output \in BOOLEAN
    /\ pc = "fcall"
    /\ math_round = FALSE
    /\ extra_bits = 0
    /\ idx = 0
    /\ sreg = <<>>
    /\ acc = 0
    /\ result = <<>>
    /\ popped = 0
    /\ err = "none"
    /\ moving_mean = <<>>
    /\ bit_width = 0
    /\ out_width = 0
    /\ signed = FALSE
    /\ gen_extra_bits = 0
    /\ golden = <<>>
    /\ output = <<>>

fpga_locals == <<math_round, extra_bits, idx, sreg, acc, result, popped>>

(* line 18 raises *)
ConvolveRaise ==
    /\ pc = "fcall"
    /\ Line18Error(samples, integration) # "none"
    /\ pc' = "raised"
    /\ err' = Line18Error(samples, integration)
    /\ UNCHANGED <<samples, integration, fpga_locals, fvars, gvars>>

(* line 18 *)
ConvolveStep ==
    /\ pc = "fcall"
    /\ Line18Error(samples, integration) = "none"
    /\ moving_mean' = Convolve(samples, Kernel(integration))
    /\ pc' = "trim"
    /\ UNCHANGED <<samples, integration, fpga_locals, trim_output, err, gvars>>

(* lines 19-20, trim_output true *)
Trim ==
    /\ pc = "trim"
    /\ trim_output
    /\ moving_mean' = TrimHead(moving_mean, Len(samples))
    /\ pc' = "freturn"
    /\ UNCHANGED <<samples, integration, fpga_locals, trim_output, err, gvars>>

(* line 19, trim_output false *)
NoTrim ==
    /\ pc = "trim"
    /\ ~trim_output
    /\ pc' = "freturn"
    /\ UNCHANGED <<samples, integration, fpga_locals, fvars, err, gvars>>

(* line 21 *)
ReturnMean ==
    /\ pc = "freturn"
    /\ pc' = "freturned"
    /\ UNCHANGED <<samples, integration, fpga_locals, fvars, err, gvars>>

NextFloat ==
    \/ ConvolveRaise
    \/ ConvolveStep
    \/ Trim
    \/ NoTrim
    \/ ReturnMean

SpecFloat == InitFloat /\ [][NextFloat]_vars

(* ------- testbench/moving_integrator.py: the unquantized variant ------- *)

(* one iteration of its for-loop, lines 29-31: result.append(acc/integration) *)
PlainLoopBody(st, sample, n) ==
    LET old == PopValue(st.sreg)
        a   == AccUpdate(st.acc, sample, old)
    IN  [sreg   |-> AppendLeft(PopRest(st.sreg), sample),
         acc    |-> a,
         result |-> ResultAppend(st.result, Rat(a, n))]

RECURSIVE PlainRunLoop(_, _, _)
PlainRunLoop(st, s, n) ==
    IF s = <<>> THEN st
    ELSE PlainRunLoop(PlainLoopBody(st, Head(s), n), Tail(s), n)

(* the list fpga_moving_integrator(samples, integration) of that file
   returns, integration >= 1 *)
plain_fpga_moving_integrator(s, n) ==
    PlainRunLoop([sreg |-> Zeros(n), acc |-> 0, result |-> <<>>], s, n).result

(* ------------- run.py: generate_test_vectors, lines 44-59 -------------- *)

(* vector_length (line 14) and the generics of lines 18-26, scaled down *)
VectorLength == 2

MaxBitWidth == 2

MaxGrowth == 2

MaxProtection == 1

(* the values random.randrange can return at lines 53 and 55: the upper
   limit of randrange is excluded *)
StimulusVals(bw, sg) ==
    IF sg THEN (-Pow2(bw - 1))..(Pow2(bw - 1) - 2)
    ELSE 0..(Pow2(bw) - 2)

(* the extra_bits argument of the call at line 56 *)
ModelExtraBits(ow, bw, eb) == ow - bw + eb

RescaleExponentNoExtra(ow, bw, eb) == ow - bw

(* the exponent of line 57 *)
RescaleExponent(ow, bw, eb) == ow - bw + eb

(* res * 2**k *)
RatScale(v, k) ==
    IF k >= 0 THEN Rat(v.num * Pow2(k), v.den)
    ELSE Rat(v.num, v.den * Pow2(-k))

(* int(x): the fraction is dropped, toward zero *)
PyInt(x) ==
    IF x.num >= 0 THEN x.num \div x.den ELSE -((-x.num) \div x.den)

(* line 57 *)
Rescale(res, k) == [i \in 1..Len(res) |-> PyInt(RatScale(res[i], k))]

(* "{}  {}\n".format(sam, res) *)
FormatLine(sam, res) == ToString(sam) \o "  " \o ToString(res) \o "\n"

InitVectors ==
    /\ bit_width \in 1..MaxBitWidth
    /\ out_width \in bit_width..(bit_width + MaxGrowth)
    /\ integration \in 1..MaxIntegration
    /\ math_round \in BOOLEAN
    /\ signed \in BOOLEAN
    /\ gen_extra_bits \in (-MaxProtection)..0
    /\ pc = "gen"
    /\ samples = <<>>
    /\ extra_bits = 0
    /\ idx = 0
    /\ sreg = <<>>
    /\ acc = 0
    /\ result = <<>>
    /\ popped = 0
    /\ err = "none"
    /\ trim_output = TRUE
    /\ moving_mean = <<>>
    /\ golden = <<>>
    /\ output = <<>>

gen_args == <<bit_width, out_width, signed, gen_extra_bits, integration, math_round>>

(* lines 51-55: the file is opened (empty) and the stimulus is drawn *)
GenVector ==
    /\ pc = "gen"
    /\ samples' \in [1..VectorLength -> StimulusVals(bit_width, signed)]
    /\ output' = <<>>
    /\ pc' = "model"
    /\ UNCHANGED <<gen_args, extra_bits, idx, sreg, acc, result, popped, err,
                   fvars, golden>>

(* line 56: the whole call of fpga_moving_integrator *)
CallModel ==
    /\ pc = "model"
    /\ extra_bits' = ModelExtraBits(out_width, bit_width, gen_extra_bits)
    /\ result' = fpga_moving_integrator(samples, integration, math_round,
                                        extra_bits')
    /\ pc' = "rescale"
    /\ UNCHANGED <<gen_args, samples, idx, sreg, acc, popped, err, fvars,
                   golden, output>>

(* line 57 *)
RescaleStep ==
    /\ pc = "rescale"
    /\ golden' = Rescale(result,
                         RescaleExponent(out_width, bit_width, gen_extra_bits))
    /\ pc' = "write"
    /\ UNCHANGED <<gen_args, samples, extra_bits, idx, sreg, acc, result,
                   popped, err, fvars, output>>

(* lines 58-59: the next pair of zip(vector, result) is written *)
WriteLine ==
    /\ pc = "write"
    /\ idx < Len(samples)
    /\ idx < Len(golden)
    /\ output' = Append(output, FormatLine(samples[idx + 1], golden[idx + 1]))
    /\ idx' = idx + 1
    /\ UNCHANGED <<gen_args, samples, extra_bits, pc, sreg, acc, result,
                   popped, err, fvars, golden>>

(* the with block ends: zip is exhausted and the file is closed *)
CloseFile ==
    /\ pc = "write"
    /\ (idx = Len(samples) \/ idx = Len(golden))
    /\ pc' = "closed"
    /\ UNCHANGED <<gen_args, samples, extra_bits, idx, sreg, acc, result,
                   popped, err, fvars, golden, output>>

NextVectors ==
    \/ GenVector
    \/ CallModel
    \/ RescaleStep
    \/ WriteLine
    \/ CloseFile

SpecVectors == InitVectors /\ [][NextVectors]_vars

(* ------------- the example call of the module's __main__ --------------- *)

ExampleSamples == <<1, 2, 3, 4, 5, 6, 7, 8>>

ExampleIntegration == 4

ExampleExtraBits == 3

Slices(s) ==
    { SubSeq(s, a, b) : a \in 1..(Len(s) + 1), b \in 0..Len(s) }

(* calls on the example vector and its contiguous slices *)
InitExample ==
    /\ samples \in Slices(ExampleSamples)
    /\ integration \in IntegrationVals \cup {ExampleIntegration}
    /\ math_round \in BOOLEAN
    /\ extra_bits \in ExtraBitsVals \cup {ExampleExtraBits}
    /\ Idle

SpecExample == InitExample /\ [][Next]_vars

(* ------------------------------ claims --------------------------------- *)

(* an integer list as the list of values it equals *)
AsValues(s) == [i \in 1..Len(s) |-> [num |-> s[i], den |-> 1]]

RECURSIVE Sum(_)
Sum(s) == IF s = <<>> THEN 0 ELSE Head(s) + Sum(Tail(s))

Running == pc \in {"loop", "returned"} /\ integration >= 1

IsExampleCall ==
    /\ samples = ExampleSamples
    /\ integration = ExampleIntegration
    /\ ~math_round
    /\ extra_bits = 0

(* C1, as stated: the example call with integration 4, truncation and no
   extra bits returns [0,0,0,2,3,4,5,6]. *)
C1_Original ==
    (pc = "returned" /\ IsExampleCall)
        => result = AsValues(<<0, 0, 0, 2, 3, 4, 5, 6>>)

(* C1, amended: the example call returns [0,0,1,2,3,4,5,6]; the third
   accumulator is 6 and floor(6/4) = 1. *)
C1_Amended ==
    (pc = "returned" /\ IsExampleCall)
        => result = AsValues(<<0, 0, 1, 2, 3, 4, 5, 6>>)

C1_Witness ==
    pc = "returned" /\ IsExampleCall /\ Len(result) = Len(ExampleSamples)

(* C2: with integration >= 1, in the constructed state and after every
   per-sample update, acc equals the sum of the values held in sreg. *)
C2_AccIsWindowSum == Running => acc = Sum(sreg)

C2_Witness ==
    /\ Running
    /\ idx > integration
    /\ popped # 0
    /\ acc # 0
    /\ acc = Sum(sreg)

(* C3: with integration >= 1, sreg holds exactly integration entries, all
   zero in the constructed state, and keeps that length after every
   per-sample update. *)
C3_WindowLength ==
    Running => /\ Len(sreg) = integration
               /\ idx = 0 => sreg = [i \in 1..integration |-> 0]

C3_Witness ==
    Running /\ idx = Len(samples) /\ idx > integration /\ Len(sreg) = integration

(* the exact rational acc * 2^extra_bits / integration, as numerator over a
   positive denominator *)
TrueNum == IF extra_bits >= 0 THEN acc * Pow2(extra_bits) ELSE acc

TrueDen == IF extra_bits >= 0 THEN integration ELSE integration * Pow2(-extra_bits)

(* the value v times 2^eb is the integer q *)
TimesPow2Is(v, eb, q) ==
    IF eb >= 0 THEN v.num * Pow2(eb) = q * v.den
    ELSE v.num = q * v.den * Pow2(-eb)

(* the latest emitted value times 2^extra_bits is an integer *)
LastQExists ==
    LET v == result[idx]
    IN  IF extra_bits >= 0 THEN (v.num * Pow2(extra_bits)) % v.den = 0
        ELSE v.num % (v.den * Pow2(-extra_bits)) = 0

(* that integer *)
LastQ ==
    LET v == result[idx]
    IN  IF extra_bits >= 0 THEN (v.num * Pow2(extra_bits)) \div v.den
        ELSE v.num \div (v.den * Pow2(-extra_bits))

Stepped == Running /\ idx >= 1

LessEq(a, b) == a.num * b.den <= b.num * a.den

(* Python's exception for an argument of the right type and a wrong value *)
InvalidParameter == "ValueError"

(* C4: a call with integration <= 0 fails with InvalidParameter, for every
   sample sequence, the empty one included, and returns no list. *)
C4_NonPositiveIntegrationFails ==
    integration <= 0 =>
        /\ pc # "returned"
        /\ err \in {"none", InvalidParameter}

(* C5: with math_round = False the emitted value times 2^extra_bits is the
   greatest integer <= acc * 2^extra_bits / integration (the scaling is
   inside the floor); for a negative non-integer quotient it is not the
   quotient truncated toward zero. *)
C5_TruncateIsFloor ==
    (Stepped /\ ~math_round) =>
        /\ LastQExists
        /\ TimesPow2Is(result[idx], extra_bits, LastQ)
        /\ LastQ * TrueDen <= TrueNum
        /\ TrueNum < (LastQ + 1) * TrueDen
        /\ (TrueNum < 0 /\ TrueNum % TrueDen # 0)
               => LastQ # -((-TrueNum) \div TrueDen)

C5_Witness ==
    /\ Stepped
    /\ ~math_round
    /\ extra_bits > 0
    /\ acc < 0
    /\ TrueNum % TrueDen # 0
    /\ (acc \div integration) * Pow2(extra_bits) # LastQ

(* C6: with math_round = True the emitted value times 2^extra_bits is an
   integer nearest to acc * 2^extra_bits / integration, and on an exact
   half-way case it is the even neighbour, for either sign of acc. *)
C6_RoundIsNearestEven ==
    (Stepped /\ math_round) =>
        /\ LastQExists
        /\ TimesPow2Is(result[idx], extra_bits, LastQ)
        /\ 2 * (LastQ * TrueDen - TrueNum) <= TrueDen
        /\ 2 * (TrueNum - LastQ * TrueDen) <= TrueDen
        /\ (2 * (LastQ * TrueDen - TrueNum) \in {TrueDen, -TrueDen})
               => LastQ % 2 = 0

C6_Witness ==
    /\ Stepped
    /\ math_round
    /\ acc < 0
    /\ 2 * (TrueNum - LastQ * TrueDen) = TrueDen
    /\ LastQ % 2 = 0

(* C7: for the same samples, integration and extra_bits, every output of
   the math_round = False call is <= the output at the same index of the
   math_round = True call. *)
C7_FloorLeqRound ==
    (pc = "returned" /\ integration >= 1 /\ ~math_round) =>
        LET r == fpga_moving_integrator(samples, integration, TRUE, extra_bits)
        IN  /\ Len(r) = Len(result)
            /\ \A i \in 1..Len(result) : LessEq(result[i], r[i])

C7_Witness ==
    /\ pc = "returned"
    /\ integration >= 1
    /\ ~math_round
    /\ idx >= 1
    /\ acc < 0
    /\ LET r == fpga_moving_integrator(samples, integration, TRUE, extra_bits)
       IN  /\ r[idx] # result[idx]
           /\ LessEq(result[idx], r[idx])
           /\ \E i \in 1..idx : r[i] = result[i]

AllZero == \A i \in 1..Len(samples) : samples[i] = 0

(* C8: if every input sample is zero then, for every integration >= 1,
   either rounding mode and any extra_bits, acc is zero in every state and
   every output is exactly zero. *)
C8_ZeroInZeroOut ==
    (Running /\ AllZero) =>
        /\ acc = 0
        /\ \A i \in 1..Len(result) : result[i] = [num |-> 0, den |-> 1]

C8_Witness ==
    /\ pc = "returned"
    /\ integration >= 1
    /\ AllZero
    /\ Len(samples) > integration
    /\ Len(result) = Len(samples)
    /\ math_round
    /\ extra_bits # 0

IsConstant ==
    /\ Len(samples) >= 1
    /\ \A i \in 1..Len(samples) : samples[i] = samples[1]

(* v * 2^eb is an integer *)
ScalesToInteger(v, eb) == eb >= 0 \/ v % Pow2(-eb) = 0

(* C9: on a constant input v, from the sample of index integration - 1 on,
   acc = v * integration, and when v * 2^extra_bits is an integer the
   output at that index equals v, in both rounding modes. *)
C9_ConstantInput ==
    (Stepped /\ IsConstant /\ idx >= integration) =>
        /\ acc = samples[1] * integration
        /\ ScalesToInteger(samples[1], extra_bits)
               => result[idx] = [num |-> samples[1], den |-> 1]

C9_Witness ==
    /\ Stepped
    /\ IsConstant
    /\ idx > integration
    /\ integration >= 2
    /\ samples[1] < 0
    /\ extra_bits < 0
    /\ ScalesToInteger(samples[1], extra_bits)
    /\ result[idx] = [num |-> samples[1], den |-> 1]

(* C10: one output is emitted per input sample, in arrival order, and a
   call on the first k samples of s returns the first k outputs of the
   call on s, for every k <= len(s). *)
C10_PrefixOutputs ==
    /\ Running => Len(result) = idx
    /\ (pc = "returned" /\ integration >= 1) =>
           \A k \in 0..Len(samples) :
               fpga_moving_integrator(SubSeq(samples, 1, k), integration,
                                      math_round, extra_bits)
                   = SubSeq(result, 1, k)

C10_Witness ==
    /\ pc = "returned"
    /\ integration >= 2
    /\ Len(samples) > integration
    /\ Len(result) = Len(samples)
    /\ result[1] # result[Len(result)]
    /\ fpga_moving_integrator(SubSeq(samples, 1, 2), integration,
                              math_round, extra_bits) = SubSeq(result, 1, 2)

(* C11: for 1 <= integration <= len(samples), moving_integrator returns
   len(samples) + integration - 1 elements when trim_output is False and
   exactly len(samples) when it is True. *)
C11_OutputLength ==
    (pc = "freturned" /\ 1 <= integration /\ integration <= Len(samples)) =>
        Len(moving_mean) = IF trim_output THEN Len(samples)
                           ELSE Len(samples) + integration - 1

C11_Witness ==
    /\ pc = "freturned"
    /\ integration >= 2
    /\ integration <= Len(samples)
    /\ ~trim_output
    /\ Len(moving_mean) = Len(samples) + integration - 1
    /\ moving_mean[1] # moving_mean[Len(moving_mean)]

(* C12: on an empty sample sequence with integration >= 1,
   moving_integrator completes without error and returns an empty
   sequence, whatever trim_output is. *)
C12_EmptySamplesReturnEmpty ==
    (samples = <<>> /\ integration >= 1 /\ pc \in {"raised", "freturned"}) =>
        /\ pc = "freturned"
        /\ err = "none"
        /\ moving_mean = <<>>

(* C13: with integration = 0 moving_integrator fails with InvalidParameter
   for every sample sequence: it never gets past line 18, never returns an
   array, and raises no other kind of error. *)
C13_ZeroIntegrationFails ==
    integration = 0 =>
        /\ pc \in {"fcall", "raised"}
        /\ pc = "raised" => err = InvalidParameter
        /\ moving_mean = <<>>

C13_Witness ==
    /\ integration = 0
    /\ pc = "raised"
    /\ Len(samples) >= 2
    /\ err = InvalidParameter

(* C14: with integration = N >= 1, the value evicted while sample index i
   (0-based) is processed is the initial zero when i < N and sample i - N
   otherwise; after that step sreg holds, newest first, samples i, i-1,
   ..., i-N+1, with zero where the index would be negative. *)
C14_EvictionOrder ==
    Stepped =>
        /\ popped = IF idx <= integration THEN 0 ELSE samples[idx - integration]
        /\ Len(sreg) = integration
        /\ \A j \in 1..integration :
               sreg[j] = IF idx - j + 1 >= 1 THEN samples[idx - j + 1] ELSE 0

C14_Witness ==
    /\ Stepped
    /\ integration >= 2
    /\ idx > integration
    /\ popped = samples[idx - integration]
    /\ popped # 0
    /\ sreg[1] # sreg[2]
    /\ sreg[1] = samples[idx]

MaxAbs(s) ==
    IF s = <<>> THEN 0
    ELSE CHOOSE m \in { Abs(s[i]) : i \in 1..Len(s) } :
             \A i \in 1..Len(s) : Abs(s[i]) <= m

(* C15: if every sample s has |s| <= M then |acc| <= integration * M in
   every state of a call with integration >= 1, and with non-negative
   samples acc is never negative. *)
C15_AccBounded ==
    Running =>
        /\ Abs(acc) <= integration * MaxAbs(samples)
        /\ (\A i \in 1..Len(samples) : samples[i] >= 0) => acc >= 0

C15_Witness ==
    /\ Running
    /\ integration >= 2
    /\ idx > integration
    /\ MaxAbs(samples) >= 1
    /\ acc = -(integration * MaxAbs(samples))

(* the sum of samples max(0, i-N+1)..i, i the 1-based index of the sample *)
WindowSum(s, i, n) == Sum(SubSeq(s, IF i - n + 1 > 1 THEN i - n + 1 ELSE 1, i))

(* C16: for integration = N >= 1 the accumulator after sample i is the sum
   of samples max(0, i-N+1)..i, and the unquantized streaming outputs
   acc/N equal, as exact rationals, the elements of
   moving_integrator(samples, N, trim_output=True). *)
C16_StreamingMatchesConvolution ==
    /\ Stepped => acc = WindowSum(samples, idx, integration)
    /\ (pc = "returned" /\ integration >= 1 /\ samples # <<>>) =>
           LET m == moving_integrator(samples, integration, TRUE)
           IN  /\ plain_fpga_moving_integrator(samples, integration) = m
               /\ \A i \in 1..Len(samples) :
                      m[i] = Rat(WindowSum(samples, i, integration), integration)
               /\ m[idx] = Rat(acc, integration)

C16_Witness ==
    /\ pc = "returned"
    /\ integration >= 2
    /\ Len(samples) > integration
    /\ acc # Sum(samples)
    /\ acc % integration # 0
    /\ plain_fpga_moving_integrator(samples, integration)
           = moving_integrator(samples, integration, TRUE)

(* C17: when integration = len(samples) every evicted value is an initial
   zero and no sample leaves the window; after the last sample acc is the
   sum of all samples and the last output is the quantized mean of the
   whole sequence. *)
C17_WindowEqualsLength ==
    (Stepped /\ integration = Len(samples)) =>
        /\ popped = 0
        /\ \A i \in 1..idx : sreg[idx + 1 - i] = samples[i]
        /\ idx = Len(samples) =>
               /\ acc = Sum(samples)
               /\ result[idx]
                      = Unscale(Quantize(Sum(samples), Len(samples),
                                         math_round, extra_bits), extra_bits)

C17_Witness ==
    /\ pc = "returned"
    /\ integration = Len(samples)
    /\ integration >= 3
    /\ \A i \in 1..Len(samples) : samples[i] # 0
    /\ acc = Sum(samples)
    /\ acc % integration # 0

(* the integer the model quantized for sample i, before its division by
   2^extra_bits *)
QuantizedAt(i) ==
    Quantize(Sum(SubSeq(samples, IF i - integration + 1 > 1
                                 THEN i - integration + 1 ELSE 1, i)),
             integration, math_round, extra_bits)

(* C18: in generate_test_vectors the golden integer int(res * 2^k), with
   k = out_width - bit_width + extra_bits, is the integer the model
   quantized for that sample, and one '<input>  <golden>' line is written
   per generated sample, in input order. *)
C18_GoldenRoundTrip ==
    /\ pc \in {"write", "closed"} =>
           /\ Len(golden) = Len(samples)
           /\ \A i \in 1..Len(samples) : golden[i] = QuantizedAt(i)
           /\ Len(output) = idx
           /\ \A i \in 1..Len(output) :
                  output[i] = ToString(samples[i]) \o "  "
                                  \o ToString(QuantizedAt(i)) \o "\n"
    /\ pc = "closed" => Len(output) = Len(samples)

C18_Witness ==
    /\ pc = "closed"
    /\ Len(output) = VectorLength
    /\ extra_bits > 0
    /\ gen_extra_bits < 0
    /\ signed
    /\ \E i \in 1..Len(result) : result[i].den > 1 /\ result[i].num < 0
    /\ golden[1] # golden[2]

====
